---- MODULE Spec2Model ----
(***************************************************************************)
(* Model of PBWJ (OctoBoard): app.py scans a code base, asks Gemini for a  *)
(* board description and creates or updates a Trello board from it.        *)
(* The model follows main() of src/app.py statement by statement; every    *)
(* requests call and every LLM call is one step that may succeed or fail.  *)
(***************************************************************************)
EXTENDS Integers, Sequences, FiniteSets, TLC

\* ---------------------------------------------------------------- bounds
MaxLists == 2          \* lists in a generated board description
MaxCards == 1          \* cards per generated list
MaxRenames == 1        \* renames of a board by another user of the account

\* ------------------------------------------------------------- the inputs
RunIds == {1, 2}       \* invocations of main()
BoardName == "repo"    \* the name main() derives for the board
OtherName == "other"   \* any different board name
Descs == <<"d1", "d2">>
ResolvedDesc == "d3"   \* an existing card no suggestion repeats

RepoUrl == "https://github.com/u/repo.git"   \* a repository URL
Cwd == "/home/u/repo"                        \* os.getcwd()

\* path.split(sep)[-1] for the paths above
LastSegment(path) ==
    CASE path = RepoUrl -> "repo.git"
      [] path = Cwd -> "repo"
      [] OTHER -> path

\* name[:-4] when name.endswith('.git')
StripGit(name) == IF name = "repo.git" THEN "repo" ELSE name

\* The board name main() derives; "" stands for github_url=None.
BoardNameOf(github_url) ==
    IF github_url # "" THEN StripGit(LastSegment(github_url))
    ELSE LastSegment(Cwd)

\* How main() gets called: by gui.py on a submitted form (url is what the
\* GitHub URL field holds), by the __main__ block of app.py, or by a direct
\* call main(key, token, status, github_url=url).
Invocations ==
    { [entry |-> "gui", url |-> ""],
      [entry |-> "gui", url |-> RepoUrl],
      [entry |-> "cli", url |-> ""],
      [entry |-> "call", url |-> RepoUrl] }

\* dict.get(key, default) of a parsed JSON object
Get(d, key, default) == IF key \in DOMAIN d THEN d[key] ELSE default

ListName(i) == IF i = 1 THEN "app.py" ELSE "gui.py"
CardName(i, j) == IF j = 1 THEN "n1" ELSE "n2"
CardDesc(i, j) == Descs[((i + j) % 2) + 1]

\* A list of the schema the prompt asks for, with c cards.
ListSpec(i, c) ==
    [name |-> ListName(i),
     cards |-> [j \in 1..c |-> [name |-> CardName(i, j),
                                description |-> CardDesc(i, j)]]]

\* The objects json.loads can return for a reply that follows the schema,
\* and one object without the "lists" key.
GenSpecs ==
    { [boardName |-> BoardName,
       lists |-> [i \in 1..Len(cnt) |-> ListSpec(i, cnt[i])]] :
         cnt \in UNION { [1..m -> 0..MaxCards] : m \in 0..MaxLists } }
    \cup { [boardName |-> BoardName] }

NoSpec == [boardName |-> ""]
NoList == [name |-> ""]

\* ---------------------------------------------------------------- state
VARIABLES
    key,      \* GEMINI_API_KEY: "missing", "placeholder" or "valid"
    boards,   \* the account's boards on the service; the id is the index
    lists,    \* all lists on the service; the id is the index
    cards,    \* all cards on the service; the id is the index
    renames,  \* renames done so far by another user
    active,   \* the invocations that take place
    scratch,  \* the directories ever made under github_repos; the index
              \* stands for the uuid4 name
    loc       \* per invocation: position, local variables, calls issued

vars == <<key, boards, lists, cards, renames, active, scratch, loc>>

\* ------------------------------------------------------- initial service
Board(name) == [name |-> name, by |-> 0]
List(b, name) == [idBoard |-> b, name |-> name, by |-> 0]
Card(l, name, desc) == [idList |-> l, name |-> name, desc |-> desc, by |-> 0]

\* The contents of the account before any run: boards, lists, cards.
InitialServices ==
    { <<<<>>, <<>>, <<>>>>,
      <<<<Board(OtherName)>>, <<>>, <<>>>>,
      <<<<Board(BoardName)>>, <<>>, <<>>>>,
      <<<<Board(BoardName)>>, <<List(1, "app.py")>>, <<>>>>,
      <<<<Board(BoardName)>>, <<List(1, "app.py")>>,
        <<Card(1, "old", Descs[1])>>>>,
      <<<<Board(BoardName)>>, <<List(1, "app.py"), List(1, "gui.py")>>,
        <<Card(1, "old", Descs[1]), Card(2, "fixed", ResolvedDesc)>>>>,
      <<<<Board(OtherName), Board(BoardName)>>,
        <<List(1, "todo"), List(2, "app.py")>>,
        <<Card(1, "x", Descs[2]), Card(2, "old", Descs[1])>>>> }

InitLoc ==
    [pc |-> "import",
     entry |-> "gui",
     url |-> "",
     sink |-> "st.status",
     github_url |-> "",
     repo_destination |-> 0,
     bound |-> {},
     board_name |-> "",
     board_exists |-> FALSE,
     cached_board_id |-> 0,
     board_id |-> 0,
     lists_ids |-> <<>>,
     k |-> 0,
     data |-> <<>>,
     trello_data |-> NoSpec,
     trello_list |-> NoList,
     list_id |-> 0,
     li |-> 0,
     ci |-> 0,
     entered |-> <<>>,
     status_state |-> "running",
     status_label |-> "",
     error |-> "none",
     calls |-> <<>>]

\* The runs started from gui.py with an empty URL field are taken with every
\* initial account, the other invocations with an account without boards
\* and with an account whose board holds one card.
Paired(inv, s) ==
    \/ inv = [entry |-> "gui", url |-> ""]
    \/ Len(s[1]) = 0
    \/ Len(s[1]) = 1 /\ Len(s[3]) = 1

InitRuns(S) ==
    /\ key \in {"missing", "placeholder", "valid"}
    /\ renames = 0
    /\ active = S
    /\ scratch = <<>>
    /\ \E s \in InitialServices, inv \in [S -> Invocations] :
         /\ \A r \in S : Paired(inv[r], s)
         /\ boards = s[1]
         /\ lists = s[2]
         /\ cards = s[3]
         /\ loc = [r \in RunIds |->
                  IF r \in S
                  THEN [InitLoc EXCEPT !.entry = inv[r].entry,
                                       !.url = inv[r].url,
                                       !.sink = IF inv[r].entry = "cli"
                                                THEN "sys.stdout" ELSE "st.status"]
                  ELSE InitLoc]

Init == InitRuns({1})

\* ------------------------------------------------------------- helpers
\* One entry of an invocation's record of outbound calls.
Call(op, ok, ref, desc, res) ==
    [op |-> op, ok |-> ok, ref |-> ref, desc |-> desc, res |-> res]

IsBound(l, v) == v \in l.bound

\* An exception nothing catches ends the invocation.
Crash(l, exc) == [l EXCEPT !.pc = "crashed", !.error = exc]

\* sys.exit(1) outside of any try block.
Exit(l) == [l EXCEPT !.pc = "exited", !.error = "SystemExit"]

\* The bare "except:" of main(): whatever was raised inside the try block,
\* SystemExit included, sets board_exists to False and execution continues
\* at the "if not board_exists" statement.
Except(l) ==
    [l EXCEPT !.board_exists = FALSE,
              !.bound = @ \cup {"board_exists"},
              !.pc = "check_not_exists"]

Step(r, l) == loc' = [loc EXCEPT ![r] = l]

\* The ids of the cards of list id on the service.
CardsOfList(id) == { c \in 1..Len(cards) : cards[c].idList = id }

\* The first board of the listing with the given name, 0 when there is none.
FirstNamed(bs, name) ==
    IF \E b \in 1..Len(bs) : bs[b].name = name
    THEN CHOOSE b \in 1..Len(bs) :
           /\ bs[b].name = name
           /\ \A c \in 1..(b - 1) : bs[c].name # name
    ELSE 0

\* ----------------------------------------------------------- the program
\* Module level of app.py: the key is read and a missing key exits.
ImportApp(r) ==
    LET l == loc[r] IN
    /\ l.pc = "import"
    /\ Step(r, IF key = "missing" THEN Exit(l) ELSE [l EXCEPT !.pc = "main"])
    /\ UNCHANGED <<key, boards, lists, cards, renames, active, scratch>>

\* The call of main() and main() up to the clone: gui.py and the __main__
\* block pass no github_url; the board name, the key check, status.update.
\* sys.stdout has no update method.
MainStart(r) ==
    LET l == loc[r]
        github_url == IF l.entry = "call" THEN l.url ELSE ""
        named == [l EXCEPT !.github_url = github_url,
                           !.board_name = BoardNameOf(github_url)] IN
    /\ l.pc = "main"
    /\ Step(r, IF key = "missing" THEN Exit(named)
               ELSE IF l.sink = "sys.stdout" THEN Crash(named, "AttributeError")
               ELSE [named EXCEPT !.pc = "clone"])
    /\ UNCHANGED <<key, boards, lists, cards, renames, active, scratch>>

\* "if github_url:" a directory github_repos/<uuid4> is made and git clone
\* is run into it; subprocess.run raises when the executable is missing.
\* Without a URL repo_destination is ".".
CloneRepo(r) ==
    LET l == loc[r]
        urid == Len(scratch) + 1 IN
    /\ l.pc = "clone"
    /\ IF l.github_url = ""
       THEN /\ Step(r, [l EXCEPT !.repo_destination = 0, !.pc = "scan"])
            /\ UNCHANGED scratch
       ELSE /\ scratch' = Append(scratch, [by |-> r, exists |-> TRUE])
            /\ \E ok \in BOOLEAN :
                 Step(r, IF ok THEN [l EXCEPT !.repo_destination = urid, !.pc = "scan"]
                         ELSE Crash([l EXCEPT !.repo_destination = urid],
                                    "FileNotFoundError"))
    /\ UNCHANGED <<key, boards, lists, cards, renames, active>>

\* scan_codebase(repo_destination), then rm -rf of a directory under
\* github_repos.  Nothing catches what the scan raises.
ScanCodebase(r) ==
    LET l == loc[r] IN
    /\ l.pc = "scan"
    /\ \E ok \in BOOLEAN :
         IF ok
         THEN /\ Step(r, [l EXCEPT !.pc = "get_member"])
              /\ scratch' = IF l.repo_destination # 0
                            THEN [scratch EXCEPT ![l.repo_destination].exists = FALSE]
                            ELSE scratch
         ELSE /\ Step(r, Crash(l, "ScanError"))
              /\ UNCHANGED scratch
    /\ UNCHANGED <<key, boards, lists, cards, renames, active>>

\* requests.get(members/me).json()['id'], outside of any try block.
GetMember(r) ==
    LET l == loc[r] IN
    /\ l.pc = "get_member"
    /\ \E ok \in BOOLEAN :
         LET called == [l EXCEPT !.calls = Append(@, Call("get_member", ok, 0, "", 0))]
         IN Step(r, IF ok THEN [called EXCEPT !.pc = "get_boards"]
                    ELSE Crash(called, "RequestError"))
    /\ UNCHANGED <<key, boards, lists, cards, renames, active, scratch>>

\* requests.get(members/<id>/boards).json() and the search for the name.
GetBoards(r) ==
    LET l == loc[r] IN
    /\ l.pc = "get_boards"
    /\ \E ok \in BOOLEAN :
         LET called == [l EXCEPT !.calls = Append(@, Call("get_boards", ok, 0, "", 0))]
             b == FirstNamed(boards, l.board_name)
         IN Step(r, IF ~ok THEN Crash(called, "RequestError")
                    ELSE IF b = 0 THEN [called EXCEPT !.pc = "check_exists"]
                    ELSE [called EXCEPT !.pc = "check_exists",
                                        !.cached_board_id = b,
                                        !.board_exists = TRUE,
                                        !.bound = @ \cup {"cached_board_id", "board_exists"}])
    /\ UNCHANGED <<key, boards, lists, cards, renames, active, scratch>>

\* "if board_exists:" reads a local that only the loop above assigns.
CheckBoardExists(r) ==
    LET l == loc[r] IN
    /\ l.pc = "check_exists"
    /\ Step(r, IF ~IsBound(l, "board_exists") THEN Crash(l, "UnboundLocalError")
               ELSE IF l.board_exists
                    THEN [l EXCEPT !.board_id = l.cached_board_id,
                                   !.bound = @ \cup {"board_id"},
                                   !.entered = Append(@, "update"),
                                   !.pc = "get_board"]
                    ELSE [l EXCEPT !.pc = "check_not_exists"])
    /\ UNCHANGED <<key, boards, lists, cards, renames, active, scratch>>

\* GetBoard with the comparison of the re-fetched name left out.
GetBoardNoCompare(r) ==
    LET l == loc[r] IN
    /\ l.pc = "get_board"
    /\ \E ok \in BOOLEAN :
         LET called == [l EXCEPT !.calls =
                            Append(@, Call("get_board", ok, l.board_id,
                                           IF ok THEN boards[l.board_id].name ELSE "", 0))]
         IN Step(r, IF ~ok THEN Except(called)
                    ELSE [called EXCEPT !.pc = "fetch_lists"])
    /\ UNCHANGED <<key, boards, lists, cards, renames, active, scratch>>

\* The re-fetch of the board by id and the comparison of its name.  With a
\* different name update_board is skipped and the loop over
\* trello_data.get('lists') reads the unassigned trello_data.  The call
\* record keeps the name the service returned.
GetBoard(r) ==
    LET l == loc[r] IN
    /\ l.pc = "get_board"
    /\ \E ok \in BOOLEAN :
         LET called == [l EXCEPT !.calls =
                            Append(@, Call("get_board", ok, l.board_id,
                                           IF ok THEN boards[l.board_id].name ELSE "", 0))]
             renamed == [called EXCEPT !.board_exists = FALSE]
         IN Step(r, IF ~ok THEN Except(called)
                    ELSE IF boards[l.board_id].name = l.board_name
                         THEN [called EXCEPT !.pc = "fetch_lists"]
                    ELSE IF IsBound(renamed, "trello_data")
                         THEN [renamed EXCEPT !.li = 1, !.pc = "update_list"]
                    ELSE Except(renamed))
    /\ UNCHANGED <<key, boards, lists, cards, renames, active, scratch>>

\* update_board(): requests.get(boards/<id>/lists), raise_for_status.
FetchLists(r) ==
    LET l == loc[r] IN
    /\ l.pc = "fetch_lists"
    /\ \E ok \in BOOLEAN :
         LET called == [l EXCEPT !.calls =
                            Append(@, Call("get_lists", ok, l.board_id, "", 0))]
             ids == SelectSeq([i \in 1..Len(lists) |-> i],
                              LAMBDA i : lists[i].idBoard = l.board_id)
         IN Step(r, IF ~ok THEN Except(called)
                    ELSE [called EXCEPT !.lists_ids = ids,
                                        !.data = <<>>,
                                        !.k = 1,
                                        !.pc = IF ids = <<>> THEN "update_gemini"
                                               ELSE "fetch_cards"])
    /\ UNCHANGED <<key, boards, lists, cards, renames, active, scratch>>

\* update_board(): requests.get(lists/<id>/cards) for the next list id;
\* data[card['id']] = card['desc'] for each of its cards.
FetchCards(r) ==
    LET l == loc[r]
        id == l.lists_ids[l.k] IN
    /\ l.pc = "fetch_cards"
    /\ \E ok \in BOOLEAN :
         LET called == [l EXCEPT !.calls = Append(@, Call("get_cards", ok, id, "", 0))]
             ids == DOMAIN l.data \cup CardsOfList(id)
         IN Step(r, IF ~ok THEN Except(called)
                    ELSE [called EXCEPT !.data = [c \in ids |-> cards[c].desc],
                                        !.k = @ + 1,
                                        !.pc = IF l.k = Len(l.lists_ids)
                                               THEN "update_gemini"
                                               ELSE "fetch_cards"])
    /\ UNCHANGED <<key, boards, lists, cards, renames, active, scratch>>

\* How generate_content followed by json.loads can fail: the call raises,
\* or the cleaned reply is not JSON.
GenFailures == {"call error", "unparseable"}

\* update_board(): the key check, the call of the model with the existing
\* cards in the prompt, json.loads.  sys.exit(1) raises SystemExit inside
\* the try block of main().
AskGeminiUpdate(r) ==
    LET l == loc[r] IN
    /\ l.pc = "update_gemini"
    /\ IF key # "valid"
       THEN Step(r, Except(l))
       ELSE \/ \E why \in GenFailures :
                 Step(r, Except([l EXCEPT !.calls =
                                     Append(@, Call("generate_update", FALSE, 0, why, 0))]))
            \/ \E reply \in GenSpecs :
                 Step(r, [l EXCEPT !.calls =
                                     Append(@, Call("generate_update", TRUE, 0, "", 0)),
                                   !.trello_data = reply,
                                   !.bound = @ \cup {"trello_data"},
                                   !.li = 1,
                                   !.pc = "update_list"])
    /\ UNCHANGED <<key, boards, lists, cards, renames, active, scratch>>

\* UpdateCreateList taking a list of the same name that is already on the
\* board in place of making a new one.
UpdateCreateListReusing(r) ==
    LET l == loc[r]
        ls == Get(l.trello_data, "lists", <<>>) IN
    /\ l.pc = "update_list"
    /\ IF l.li > Len(ls)
       THEN /\ Step(r, [l EXCEPT !.status_label = "Trello has been updated",
                                 !.pc = "check_not_exists"])
            /\ UNCHANGED lists
       ELSE \E ok \in BOOLEAN :
              LET tl == ls[l.li]
                  name == Get(tl, "name", "Unnamed List")
                  same == { i \in 1..Len(lists) :
                              lists[i].idBoard = l.board_id /\ lists[i].name = name }
                  id == IF same = {} THEN Len(lists) + 1
                        ELSE CHOOSE i \in same : \A j \in same : i <= j
                  called == [l EXCEPT !.trello_list = tl,
                                      !.bound = @ \cup {"trello_list"},
                                      !.calls = Append(@, Call("create_list", ok, l.board_id,
                                                               name, IF ok THEN id ELSE 0))]
              IN IF ok
                 THEN /\ lists' = IF same = {}
                                  THEN Append(lists, [idBoard |-> l.board_id,
                                                      name |-> name, by |-> r])
                                  ELSE lists
                      /\ Step(r, [called EXCEPT !.list_id = id,
                                                !.bound = @ \cup {"list_id"},
                                                !.ci = 1,
                                                !.pc = "update_card"])
                 ELSE /\ Step(r, Except(called))
                      /\ UNCHANGED lists
    /\ UNCHANGED <<key, boards, cards, renames, active, scratch>>

\* The outer loop of the update path: the next list of trello_data is
\* created on the found board; after the last one the label is updated.
UpdateCreateList(r) ==
    LET l == loc[r]
        ls == Get(l.trello_data, "lists", <<>>) IN
    /\ l.pc = "update_list"
    /\ IF l.li > Len(ls)
       THEN /\ Step(r, [l EXCEPT !.status_label = "Trello has been updated",
                                 !.pc = "check_not_exists"])
            /\ UNCHANGED lists
       ELSE \E ok \in BOOLEAN :
              LET tl == ls[l.li]
                  name == Get(tl, "name", "Unnamed List")
                  id == Len(lists) + 1
                  called == [l EXCEPT !.trello_list = tl,
                                      !.bound = @ \cup {"trello_list"},
                                      !.calls = Append(@, Call("create_list", ok, l.board_id,
                                                               name, IF ok THEN id ELSE 0))]
              IN IF ok
                 THEN /\ lists' = Append(lists, [idBoard |-> l.board_id,
                                                 name |-> name, by |-> r])
                      /\ Step(r, [called EXCEPT !.list_id = id,
                                                !.bound = @ \cup {"list_id"},
                                                !.ci = 1,
                                                !.pc = "update_card"])
                 ELSE /\ Step(r, Except(called))
                      /\ UNCHANGED lists
    /\ UNCHANGED <<key, boards, cards, renames, active, scratch>>

\* UpdateCreateCard that rewrites the fetched card of the same description
\* in place, moving it to the new list, and creates the card only when
\* there is none.
UpdateCreateCardUpdating(r) ==
    LET l == loc[r]
        cs == Get(l.trello_list, "cards", <<>>) IN
    /\ l.pc = "update_card"
    /\ IF l.ci > Len(cs)
       THEN /\ Step(r, [l EXCEPT !.li = @ + 1, !.pc = "update_list"])
            /\ UNCHANGED cards
       ELSE \E ok \in BOOLEAN :
              LET card == cs[l.ci]
                  name == Get(card, "name", "Unnamed Card")
                  desc == Get(card, "description", "No description.")
                  same == { c \in DOMAIN l.data : l.data[c] = desc }
                  old == IF same = {} THEN 0
                         ELSE CHOOSE c \in same : \A d \in same : c <= d
                  id == IF old = 0 THEN Len(cards) + 1 ELSE old
                  called == [l EXCEPT !.calls =
                               Append(@, Call(IF old = 0 THEN "create_card" ELSE "update_card",
                                              ok, IF old = 0 THEN l.list_id ELSE old,
                                              desc, IF ok THEN id ELSE 0))]
              IN IF ok
                 THEN /\ cards' = IF old = 0
                                  THEN Append(cards, [idList |-> l.list_id, name |-> name,
                                                      desc |-> desc, by |-> r])
                                  ELSE [cards EXCEPT ![old].idList = l.list_id,
                                                     ![old].name = name]
                      /\ Step(r, [called EXCEPT !.ci = @ + 1])
                 ELSE /\ Step(r, Except(called))
                      /\ UNCHANGED cards
    /\ UNCHANGED <<key, boards, lists, renames, active, scratch>>

\* UpdateCreateCard with board_id passed to create_card in place of list_id.
UpdateCreateCardOnBoardId(r) ==
    LET l == loc[r]
        cs == Get(l.trello_list, "cards", <<>>) IN
    /\ l.pc = "update_card"
    /\ IF l.ci > Len(cs)
       THEN /\ Step(r, [l EXCEPT !.li = @ + 1, !.pc = "update_list"])
            /\ UNCHANGED cards
       ELSE \E ok \in BOOLEAN :
              LET card == cs[l.ci]
                  name == Get(card, "name", "Unnamed Card")
                  desc == Get(card, "description", "No description.")
                  id == Len(cards) + 1
                  called == [l EXCEPT !.calls = Append(@, Call("create_card", ok, l.board_id,
                                                               desc, IF ok THEN id ELSE 0))]
              IN IF ok
                 THEN /\ cards' = Append(cards, [idList |-> l.board_id, name |-> name,
                                                 desc |-> desc, by |-> r])
                      /\ Step(r, [called EXCEPT !.ci = @ + 1])
                 ELSE /\ Step(r, Except(called))
                      /\ UNCHANGED cards
    /\ UNCHANGED <<key, boards, lists, renames, active, scratch>>

\* The inner loop of the update path: the next card of trello_list is
\* created in the list just created.
UpdateCreateCard(r) ==
    LET l == loc[r]
        cs == Get(l.trello_list, "cards", <<>>) IN
    /\ l.pc = "update_card"
    /\ IF l.ci > Len(cs)
       THEN /\ Step(r, [l EXCEPT !.li = @ + 1, !.pc = "update_list"])
            /\ UNCHANGED cards
       ELSE \E ok \in BOOLEAN :
              LET card == cs[l.ci]
                  name == Get(card, "name", "Unnamed Card")
                  desc == Get(card, "description", "No description.")
                  id == Len(cards) + 1
                  called == [l EXCEPT !.calls = Append(@, Call("create_card", ok, l.list_id,
                                                               desc, IF ok THEN id ELSE 0))]
              IN IF ok
                 THEN /\ cards' = Append(cards, [idList |-> l.list_id, name |-> name,
                                                 desc |-> desc, by |-> r])
                      /\ Step(r, [called EXCEPT !.ci = @ + 1])
                 ELSE /\ Step(r, Except(called))
                      /\ UNCHANGED cards
    /\ UNCHANGED <<key, boards, lists, renames, active, scratch>>

\* "if not board_exists:" after the update block.
CheckNotExists(r) ==
    LET l == loc[r] IN
    /\ l.pc = "check_not_exists"
    /\ Step(r, IF ~IsBound(l, "board_exists") THEN Crash(l, "UnboundLocalError")
               ELSE IF ~l.board_exists
                    THEN [l EXCEPT !.entered = Append(@, "create"), !.pc = "gemini"]
                    ELSE [l EXCEPT !.pc = "finish"])
    /\ UNCHANGED <<key, boards, lists, cards, renames, active, scratch>>

\* AskGemini that asks the model once more after a first failure.
AskGeminiRetrying(r) ==
    LET l == loc[r] IN
    /\ l.pc = "gemini"
    /\ IF key # "valid"
       THEN Step(r, Exit(l))
       ELSE \/ \E why \in GenFailures :
                 LET called == [l EXCEPT !.calls =
                                   Append(@, Call("generate", FALSE, 0, why, 0))]
                 IN Step(r, IF \A i \in DOMAIN l.calls : l.calls[i].op # "generate"
                            THEN called
                            ELSE Exit(called))
            \/ \E reply \in GenSpecs :
                 Step(r, [l EXCEPT !.calls = Append(@, Call("generate", TRUE, 0, "", 0)),
                                   !.trello_data = reply,
                                   !.bound = @ \cup {"trello_data"},
                                   !.pc = "create_board"])
    /\ UNCHANGED <<key, boards, lists, cards, renames, active, scratch>>

\* get_trello_json_from_gemini(): the key check, the call of the model
\* without existing cards, json.loads.  Nothing catches its sys.exit(1).
AskGemini(r) ==
    LET l == loc[r] IN
    /\ l.pc = "gemini"
    /\ IF key # "valid"
       THEN Step(r, Exit(l))
       ELSE \/ \E why \in GenFailures :
                 Step(r, Exit([l EXCEPT !.calls =
                                   Append(@, Call("generate", FALSE, 0, why, 0))]))
            \/ \E reply \in GenSpecs :
                 Step(r, [l EXCEPT !.calls = Append(@, Call("generate", TRUE, 0, "", 0)),
                                   !.trello_data = reply,
                                   !.bound = @ \cup {"trello_data"},
                                   !.pc = "create_board"])
    /\ UNCHANGED <<key, boards, lists, cards, renames, active, scratch>>

\* CreateBoard against a service that answers with the board of that name
\* when there is one.
CreateBoardUniqueName(r) ==
    LET l == loc[r] IN
    /\ l.pc = "create_board"
    /\ \E ok \in BOOLEAN :
         LET same == { b \in 1..Len(boards) : boards[b].name = l.board_name }
             id == IF same = {} THEN Len(boards) + 1
                   ELSE CHOOSE b \in same : \A c \in same : b <= c
             called == [l EXCEPT !.calls = Append(@, Call("create_board", ok, 0, l.board_name,
                                                          IF ok THEN id ELSE 0))]
         IN IF ok
            THEN /\ boards' = IF same = {}
                              THEN Append(boards, [name |-> l.board_name, by |-> r])
                              ELSE boards
                 /\ Step(r, [called EXCEPT !.board_id = id,
                                           !.bound = @ \cup {"board_id"},
                                           !.status_label = "Board created",
                                           !.li = 1,
                                           !.pc = "create_list"])
            ELSE /\ Step(r, Crash(called, "HTTPError"))
                 /\ UNCHANGED boards
    /\ UNCHANGED <<key, lists, cards, renames, active, scratch>>

\* create_board(): requests.post(boards), raise_for_status.
CreateBoard(r) ==
    LET l == loc[r] IN
    /\ l.pc = "create_board"
    /\ \E ok \in BOOLEAN :
         LET id == Len(boards) + 1
             called == [l EXCEPT !.calls = Append(@, Call("create_board", ok, 0, l.board_name,
                                                          IF ok THEN id ELSE 0))]
         IN IF ok
            THEN /\ boards' = Append(boards, [name |-> l.board_name, by |-> r])
                 /\ Step(r, [called EXCEPT !.board_id = id,
                                           !.bound = @ \cup {"board_id"},
                                           !.status_label = "Board created",
                                           !.li = 1,
                                           !.pc = "create_list"])
            ELSE /\ Step(r, Crash(called, "HTTPError"))
                 /\ UNCHANGED boards
    /\ UNCHANGED <<key, lists, cards, renames, active, scratch>>

\* The loop over the lists of the create path.  The loop over the cards
\* comes after it and starts by reading trello_list.
CreateList(r) ==
    LET l == loc[r]
        ls == Get(l.trello_data, "lists", <<>>) IN
    /\ l.pc = "create_list"
    /\ IF l.li > Len(ls)
       THEN /\ Step(r, IF IsBound(l, "trello_list")
                       THEN [l EXCEPT !.ci = 1, !.pc = "create_card"]
                       ELSE Crash(l, "UnboundLocalError"))
            /\ UNCHANGED lists
       ELSE \E ok \in BOOLEAN :
              LET tl == ls[l.li]
                  name == Get(tl, "name", "Unnamed List")
                  id == Len(lists) + 1
                  called == [l EXCEPT !.trello_list = tl,
                                      !.bound = @ \cup {"trello_list"},
                                      !.calls = Append(@, Call("create_list", ok, l.board_id,
                                                               name, IF ok THEN id ELSE 0))]
              IN IF ok
                 THEN /\ lists' = Append(lists, [idBoard |-> l.board_id,
                                                 name |-> name, by |-> r])
                      /\ Step(r, [called EXCEPT !.list_id = id,
                                                !.bound = @ \cup {"list_id"},
                                                !.li = @ + 1])
                 ELSE /\ Step(r, Crash(called, "HTTPError"))
                      /\ UNCHANGED lists
    /\ UNCHANGED <<key, boards, cards, renames, active, scratch>>

\* The loop over the cards of trello_list, placed after the loop over the
\* lists: each card goes to the list list_id holds.
CreateCard(r) ==
    LET l == loc[r]
        cs == Get(l.trello_list, "cards", <<>>) IN
    /\ l.pc = "create_card"
    /\ IF l.ci > Len(cs)
       THEN /\ Step(r, [l EXCEPT !.pc = "finish"])
            /\ UNCHANGED cards
       ELSE IF ~IsBound(l, "list_id")
       THEN /\ Step(r, Crash(l, "UnboundLocalError"))
            /\ UNCHANGED cards
       ELSE \E ok \in BOOLEAN :
              LET card == cs[l.ci]
                  name == Get(card, "name", "Unnamed Card")
                  desc == Get(card, "description", "No description.")
                  id == Len(cards) + 1
                  called == [l EXCEPT !.calls = Append(@, Call("create_card", ok, l.list_id,
                                                               desc, IF ok THEN id ELSE 0))]
              IN IF ok
                 THEN /\ cards' = Append(cards, [idList |-> l.list_id, name |-> name,
                                                 desc |-> desc, by |-> r])
                      /\ Step(r, [called EXCEPT !.ci = @ + 1])
                 ELSE /\ Step(r, Crash(called, "HTTPError"))
                      /\ UNCHANGED cards
    /\ UNCHANGED <<key, boards, lists, renames, active, scratch>>

\* status.update(state="complete") and the closing messages.
Finish(r) ==
    LET l == loc[r] IN
    /\ l.pc = "finish"
    /\ Step(r, [l EXCEPT !.status_state = "complete", !.pc = "done"])
    /\ UNCHANGED <<key, boards, lists, cards, renames, active, scratch>>

\* Another user of the account renames a board that was there before the
\* runs; done between the listing and the re-fetch it is the case the
\* comparison of the re-fetched name is for.
RenameBoard ==
    /\ renames < MaxRenames
    /\ \E b \in 1..Len(boards) :
         /\ boards[b].by = 0
         /\ boards[b].name = BoardName
         /\ boards' = [boards EXCEPT ![b].name = OtherName]
    /\ renames' = renames + 1
    /\ UNCHANGED <<key, lists, cards, active, scratch, loc>>

Next ==
    \/ \E r \in active : ImportApp(r)
    \/ \E r \in active : MainStart(r)
    \/ \E r \in active : CloneRepo(r)
    \/ \E r \in active : ScanCodebase(r)
    \/ \E r \in active : GetMember(r)
    \/ \E r \in active : GetBoards(r)
    \/ \E r \in active : CheckBoardExists(r)
    \/ \E r \in active : GetBoard(r)
    \/ \E r \in active : FetchLists(r)
    \/ \E r \in active : FetchCards(r)
    \/ \E r \in active : AskGeminiUpdate(r)
    \/ \E r \in active : UpdateCreateList(r)
    \/ \E r \in active : UpdateCreateCard(r)
    \/ \E r \in active : CheckNotExists(r)
    \/ \E r \in active : AskGemini(r)
    \/ \E r \in active : CreateBoard(r)
    \/ \E r \in active : CreateList(r)
    \/ \E r \in active : CreateCard(r)
    \/ \E r \in active : Finish(r)
    \/ RenameBoard

Spec == Init /\ [][Next]_vars

\* ------------------------------------------------- vocabulary of claims
Terminal == {"done", "exited", "crashed"}
GenOps == {"generate", "generate_update"}
CreateOps == {"create_board", "create_list", "create_card"}
ServiceOps == {"get_member", "get_boards", "get_board", "get_lists", "get_cards"}
                 \cup CreateOps

Range(f) == { f[x] : x \in DOMAIN f }

\* The positions of the calls of an invocation with an operation in ops.
CallsOf(l, ops) == { i \in DOMAIN l.calls : l.calls[i].op \in ops }
Succeeded(l, ops) == { i \in CallsOf(l, ops) : l.calls[i].ok }
Failed(l, ops) == { i \in CallsOf(l, ops) : ~l.calls[i].ok }
NoCallFailed(l) == \A i \in DOMAIN l.calls : l.calls[i].ok

\* The lists of the description an invocation holds, and their card total.
SpecLists(l) == Get(l.trello_data, "lists", <<>>)
RECURSIVE SumCards(_)
SumCards(ls) ==
    IF ls = <<>> THEN 0
    ELSE Len(Get(Head(ls), "cards", <<>>)) + SumCards(Tail(ls))

\* The lists and cards an invocation has created on the service.
ListsBy(r) == { i \in 1..Len(lists) : lists[i].by = r }
CardsBy(r) == { c \in 1..Len(cards) : cards[c].by = r }
BoardsNamed(name) == { b \in 1..Len(boards) : boards[b].name = name }

\* The position of the call of the model that opens the create path, and
\* the ids the create-list calls after it returned, in order.
GenPos(l) == IF CallsOf(l, {"generate"}) = {} THEN 0
             ELSE CHOOSE i \in CallsOf(l, {"generate"}) : TRUE
CreatePathCalls(l) == SubSeq(l.calls, GenPos(l) + 1, Len(l.calls))
CreatePathLists(l) ==
    SelectSeq(CreatePathCalls(l), LAMBDA c : c.op = "create_list" /\ c.ok)

\* main() has been called and has derived the board name.
MainCalled(l) == l.board_name # ""

\* The listing succeeded and held no board of the wanted name.
LookupFoundNothing(l) ==
    /\ Succeeded(l, {"get_boards"}) # {}
    /\ ~IsBound(l, "cached_board_id")

\* ----------------------------------------------------------------- claims
\* C1: when the account owns no board of the board name, the key is usable
\* and no remote call fails, the run takes the create path: the model is asked without
\* existing cards, a board of that name is created and the run ends DONE
\* with the status complete.
C1_NoBoardTakesCreatePath ==
    \A r \in active :
      LET l == loc[r] IN
      (/\ l.pc \in Terminal
       /\ key = "valid"
       /\ LookupFoundNothing(l)
       /\ NoCallFailed(l))
        => /\ l.pc = "done"
           /\ l.status_state = "complete"
           /\ Succeeded(l, {"generate"}) # {}
           /\ CallsOf(l, {"generate_update"}) = {}
           /\ \E b \in BoardsNamed(l.board_name) : boards[b].by = r

\* C2: when the update path has run to the end, every suggested card whose
\* description equals the description of an existing card was sent as an
\* update of that card and no create-card call was made for it.
C2_MatchingCardIsUpdated ==
    \A r \in active :
      LET l == loc[r] IN
      (l.pc = "done" /\ l.entered = <<"update">>)
        => \A i \in DOMAIN SpecLists(l) :
             \A j \in DOMAIN Get(SpecLists(l)[i], "cards", <<>>) :
               LET d == Get(Get(SpecLists(l)[i], "cards", <<>>)[j],
                            "description", "No description.") IN
               \A c \in DOMAIN l.data :
                 l.data[c] = d
                   => /\ \E n \in CallsOf(l, {"update_card"}) : l.calls[n].ref = c
                      /\ \A n \in CallsOf(l, {"create_card"}) : l.calls[n].desc # d

\* C3: when the create path has run to the end, each list of the generated
\* description was created and holds exactly its own cards.
C3_EveryListGetsItsCards ==
    \A r \in active :
      LET l == loc[r] IN
      (l.pc = "done" /\ GenPos(l) > 0)
        => /\ Len(CreatePathLists(l)) = Len(SpecLists(l))
           /\ \A i \in DOMAIN SpecLists(l) :
                Cardinality(CardsOfList(CreatePathLists(l)[i].res))
                  = Len(Get(SpecLists(l)[i], "cards", <<>>))

\* C4: a run in which no call fails, against a board that held no card
\* before, issues exactly N create-list calls, sum(c_i) create-card calls
\* and no card update for a description of N lists with c_1..c_N cards.
C4_EmptyBoardCallCounts ==
    \A r \in active :
      LET l == loc[r] IN
      (/\ l.pc = "done"
       /\ NoCallFailed(l)
       /\ \A c \in 1..Len(cards) :
            cards[c].by = 0 => lists[cards[c].idList].idBoard # l.board_id)
        => /\ Cardinality(CallsOf(l, {"create_list"})) = Len(SpecLists(l))
           /\ Cardinality(CallsOf(l, {"create_card"})) = SumCards(SpecLists(l))
           /\ CallsOf(l, {"update_card"}) = {}

\* C5: with a usable key, a failure of the get-account or list-boards call
\* of the lookup is a lookup result of "not found": the run does not end in
\* an error there and goes on to the create path.
C5_LookupFailureIsNotFound ==
    \A r \in active :
      LET l == loc[r] IN
      (key = "valid" /\ Failed(l, {"get_member", "get_boards"}) # {})
        => /\ l.pc # "crashed"
           /\ "update" \notin Range(l.entered)

\* C6: after a generation error, in the update path or in the create path,
\* the run makes no further call of the model and no further create call.
C6_GenerationErrorIsFatal ==
    \A r \in active :
      LET l == loc[r] IN
      \A i \in Failed(l, GenOps) :
        \A j \in DOMAIN l.calls :
          j > i => l.calls[j].op \notin GenOps \cup CreateOps

\* C7: in a single run, with nobody renaming the board, a board of the
\* board name found at the start means no create-board call, and at most
\* one board of that name exists.
C7_NoSecondBoardOfTheName ==
    \A r \in active :
      LET l == loc[r] IN
      (Cardinality(active) = 1 /\ renames = 0)
        => /\ IsBound(l, "cached_board_id") => CallsOf(l, {"create_board"}) = {}
           /\ Cardinality(BoardsNamed(BoardName)) <= 1

\* C8: with the key missing or a placeholder, no request to the board
\* service is issued.
C8_BadKeyMakesNoServiceCall ==
    \A r \in active :
      key # "valid" => CallsOf(loc[r], ServiceOps) = {}

\* C9: a run that ended with a fatal error raised by the generator, or
\* before the generator was ever called, has created no list and no card.
C9_FatalErrorLeavesNothing ==
    \A r \in active :
      LET l == loc[r] IN
      (l.pc = "exited" \/ (l.pc = "crashed" /\ CallsOf(l, GenOps) = {}))
        => ListsBy(r) = {} /\ CardsBy(r) = {}

\* C10: in the create path, with an empty list sequence generated and the
\* board created, the run completes normally and creates no list and no
\* card.
C10_EmptyDescriptionCompletes ==
    \A r \in active :
      LET l == loc[r] IN
      (/\ l.pc \in Terminal
       /\ Succeeded(l, {"generate"}) # {}
       /\ SpecLists(l) = <<>>
       /\ Succeeded(l, {"create_board"}) # {})
        => /\ l.pc = "done"
           /\ \E b \in BoardsNamed(l.board_name) : boards[b].by = r
           /\ \A i \in DOMAIN CreatePathCalls(l) :
                CreatePathCalls(l)[i].op \notin {"create_list", "create_card"}

\* C11: once a run that made a scratch directory and got to the scan has
\* ended, in whatever way, the directory is deleted.
C11_ScratchDirectoryIsDeleted ==
    \A r \in active :
      LET l == loc[r] IN
      (l.pc \in Terminal /\ l.repo_destination # 0 /\ l.error # "FileNotFoundError")
        => ~scratch[l.repo_destination].exists

\* C12: a run started from the form of gui.py gets the URL of the form as
\* its github_url: a non-empty URL is cloned, an empty one means the
\* current directory.
C12_FormUrlIsForwarded ==
    \A r \in active :
      LET l == loc[r] IN
      (l.entry = "gui" /\ MainCalled(l))
        => l.github_url = l.url

\* The re-fetch of the found board failed or returned another name.
RefetchRejected(l) ==
    \E i \in CallsOf(l, {"get_board"}) :
      ~l.calls[i].ok \/ l.calls[i].desc # l.board_name

\* The board a list, or the list of a card, is on.
BoardOfList(i) == lists[i].idBoard
BoardOfCard(c) == IF cards[c].idList \in 1..Len(lists)
                  THEN lists[cards[c].idList].idBoard ELSE 0

\* C13: when the re-fetch of the found board fails or returns another name,
\* the model is never asked with existing cards, the run creates no list
\* and no card on the found board, and it goes on to the create path.
C13_RejectedRefetchMeansNotFound ==
    \A r \in active :
      LET l == loc[r] IN
      RefetchRejected(l)
        => /\ CallsOf(l, {"generate_update", "get_lists", "get_cards"}) = {}
           /\ \A i \in ListsBy(r) : BoardOfList(i) # l.cached_board_id
           /\ \A c \in CardsBy(r) : BoardOfCard(c) # l.cached_board_id
           /\ \/ l.pc = "check_not_exists" /\ ~l.board_exists
              \/ l.entered = <<"update", "create">>

\* C13 witness: the found board was renamed before the re-fetch and the run
\* ended with a new board and a card on it.
C13_Witness ==
    \E r \in active :
      LET l == loc[r] IN
      /\ \E i \in Succeeded(l, {"get_board"}) : l.calls[i].desc # l.board_name
      /\ l.pc = "done"
      /\ Succeeded(l, {"create_board"}) # {}
      /\ CardsBy(r) # {}

\* The positions of the create-list and create-card calls that failed in
\* the update path, that is before any call of the model without context.
UpdateFailures(l) ==
    { i \in Failed(l, {"create_list", "create_card"}) :
        GenPos(l) = 0 \/ i < GenPos(l) }

\* The board a create-list or create-card call is aimed at.
TargetBoard(c) ==
    IF c.op = "create_list" THEN c.ref
    ELSE IF c.ref \in 1..Len(lists) THEN BoardOfList(c.ref) ELSE 0

\* C14: after a create-list or create-card call of the update path has
\* failed, the run makes no further list or card on the found board and
\* goes on with the create path: the model without context, a new board,
\* its lists and cards; what the update path had created stays.
C14_FailedMutationFallsBack ==
    \A r \in active :
      LET l == loc[r] IN
      \A i \in UpdateFailures(l) :
        /\ l.pc \notin {"update_list", "update_card"}
        /\ i < Len(l.calls) => l.calls[i + 1].op = "generate"
        /\ \A j \in CallsOf(l, {"create_list", "create_card"}) :
             j > i => TargetBoard(l.calls[j]) # l.cached_board_id
        /\ \A j \in Succeeded(l, {"create_list"}) :
             j < i => lists[l.calls[j].res].by = r
        /\ \A j \in Succeeded(l, {"create_card"}) :
             j < i => cards[l.calls[j].res].by = r

\* C15: every create-card call of a run names a list id that an earlier,
\* successful create-list call of the same run returned, and every card a
\* run has made is in a list that run has made.
C15_CardsGoToListsOfTheRun ==
    \A r \in active :
      LET l == loc[r] IN
      /\ \A i \in CallsOf(l, {"create_card"}) :
           \E j \in Succeeded(l, {"create_list"}) :
             j < i /\ l.calls[j].res = l.calls[i].ref
      /\ \A c \in CardsBy(r) : cards[c].idList \in ListsBy(r)

\* C15 witness: a run has made cards in the update path and, after falling
\* back, in the create path.
C15_Witness ==
    \E r \in active :
      LET l == loc[r] IN
      /\ l.pc = "done"
      /\ \E i, j \in Succeeded(l, {"create_card"}) :
           i < GenPos(l) /\ GenPos(l) < j

\* ------------------------------------------------- two runs, no failure
\* Two invocations from gui.py against the same account, started on a board
\* that has a list with a card; every request and every call of the model succeeds.  The
\* lookups of the two runs interleave in any order; past its lookup the
\* second run waits for the first to end, so that the runs are either two
\* cycles one after the other or two cycles that both looked the board up
\* before either changed the account.
InitTwo ==
    /\ InitRuns({1, 2})
    /\ key = "valid"
    /\ Len(boards) = 1
    /\ Len(lists) = 1
    /\ Len(cards) = 1
    /\ \A r \in active : loc[r].entry = "gui" /\ loc[r].url = ""

\* The call run r has just made, if any, succeeded.
LastCallSucceeded(r) ==
    LET cs == loc[r].calls IN cs = <<>> \/ cs[Len(cs)].ok

LookupPcs == {"import", "main", "clone", "scan", "get_member", "get_boards",
              "check_exists", "get_board"}

Turn(r) ==
    \/ loc[r].pc \in LookupPcs
    \/ \A q \in active : q < r => loc[q].pc \in Terminal

NextTwo ==
    \/ \E r \in active : Turn(r) /\ ImportApp(r)
    \/ \E r \in active : Turn(r) /\ MainStart(r)
    \/ \E r \in active : Turn(r) /\ CloneRepo(r)
    \/ \E r \in active : Turn(r) /\ ScanCodebase(r) /\ loc'[r].pc # "crashed"
    \/ \E r \in active : Turn(r) /\ GetMember(r) /\ LastCallSucceeded(r)'
    \/ \E r \in active : Turn(r) /\ GetBoards(r) /\ LastCallSucceeded(r)'
    \/ \E r \in active : Turn(r) /\ CheckBoardExists(r)
    \/ \E r \in active : Turn(r) /\ GetBoard(r) /\ LastCallSucceeded(r)'
    \/ \E r \in active : Turn(r) /\ FetchLists(r) /\ LastCallSucceeded(r)'
    \/ \E r \in active : Turn(r) /\ FetchCards(r) /\ LastCallSucceeded(r)'
    \/ \E r \in active : Turn(r) /\ AskGeminiUpdate(r) /\ LastCallSucceeded(r)'
    \/ \E r \in active : Turn(r) /\ UpdateCreateList(r) /\ LastCallSucceeded(r)'
    \/ \E r \in active : Turn(r) /\ UpdateCreateCard(r) /\ LastCallSucceeded(r)'
    \/ \E r \in active : Turn(r) /\ CheckNotExists(r)
    \/ \E r \in active : Turn(r) /\ AskGemini(r) /\ LastCallSucceeded(r)'
    \/ \E r \in active : Turn(r) /\ CreateBoard(r) /\ LastCallSucceeded(r)'
    \/ \E r \in active : Turn(r) /\ CreateList(r) /\ LastCallSucceeded(r)'
    \/ \E r \in active : Turn(r) /\ CreateCard(r) /\ LastCallSucceeded(r)'
    \/ \E r \in active : Turn(r) /\ Finish(r)
    \/ RenameBoard

SpecTwo == InitTwo /\ [][NextTwo]_vars

\* Run r has ended a cycle that took the update path only.
UpdateCycleDone(r) == loc[r].pc = "done" /\ loc[r].entered = <<"update">>

\* The create-list calls of an invocation that succeeded, in order.
ListsMade(l) == SelectSeq(l.calls, LAMBDA c : c.op = "create_list" /\ c.ok)

\* The lists on board b, and those of them that were there before the runs.
ListsOn(b) == { i \in 1..Len(lists) : lists[i].idBoard = b }
ListsBefore(b) == { i \in ListsOn(b) : lists[i].by = 0 }

RECURSIVE SumSpecLists(_)
SumSpecLists(R) ==
    IF R = {} THEN 0
    ELSE LET r == CHOOSE x \in R : TRUE
         IN Len(SpecLists(loc[r])) + SumSpecLists(R \ {r})

\* C16: a cycle that took the update path to the end has made one new list
\* per list of its description, in order and on the found board, none of
\* them a list that was there before; when all the k cycles are such and
\* hold the same description of N lists, the board holds k*N lists more
\* than before the first.
C16_UpdateCycleAddsItsLists ==
    /\ \A r \in active :
         LET l == loc[r]
             made == ListsMade(l) IN
         UpdateCycleDone(r)
           => /\ Len(made) = Len(SpecLists(l))
              /\ \A i \in DOMAIN made :
                   /\ made[i].desc = Get(SpecLists(l)[i], "name", "Unnamed List")
                   /\ lists[made[i].res] =
                        [idBoard |-> l.cached_board_id, name |-> made[i].desc, by |-> r]
                   /\ \A j \in DOMAIN made : i < j => made[i].res < made[j].res
              /\ Cardinality(ListsBy(r)) = Len(SpecLists(l))
    /\ \A b \in 1..Len(boards) :
         (\A r \in active : UpdateCycleDone(r) /\ loc[r].cached_board_id = b)
           => /\ Cardinality(ListsOn(b))
                   = Cardinality(ListsBefore(b)) + SumSpecLists(active)
              /\ (\A r, q \in active : loc[r].trello_data = loc[q].trello_data)
                   => \A r \in active :
                        Cardinality(ListsOn(b)) - Cardinality(ListsBefore(b))
                          = Cardinality(active) * Len(SpecLists(loc[r]))

\* C16 witness: two cycles with the same description of MaxLists lists have
\* ended on a board that held a list of the first name before.
C16_Witness ==
    /\ \A r \in active : UpdateCycleDone(r)
    /\ Cardinality(active) = 2
    /\ \E b \in 1..Len(boards) :
         /\ \A r \in active : loc[r].cached_board_id = b
         /\ \E i \in ListsBefore(b) : lists[i].name = ListName(1)
    /\ \A r, q \in active : loc[r].trello_data = loc[q].trello_data
    /\ \A r \in active : Len(SpecLists(loc[r])) = MaxLists

\* The runs whose create-board call succeeded.
BoardMakers == { r \in active : Succeeded(loc[r], {"create_board"}) # {} }

\* C17: the service gives every successful create-board call a board of its
\* own with the name asked for, whether or not a board of that name is
\* there; so when two runs that looked the same name up have both got to
\* create their board, two boards of that name exist.
C17_EachCreateMakesABoardOfTheName ==
    /\ \A r \in active :
         LET l == loc[r] IN
         \A i \in Succeeded(l, {"create_board"}) :
           /\ l.calls[i].res \in 1..Len(boards)
           /\ boards[l.calls[i].res] = [name |-> l.board_name, by |-> r]
    /\ Cardinality(BoardMakers) = 2
         => Cardinality(BoardsNamed(BoardName)) >= 2

\* C17 witness: two runs both found the board, it was renamed before their
\* re-fetches, and each has created a board of the name.
C17_Witness ==
    /\ Cardinality(BoardMakers) = 2
    /\ \A r \in active : IsBound(loc[r], "cached_board_id") /\ RefetchRejected(loc[r])
    /\ \E b, c \in BoardsNamed(BoardName) :
         b # c /\ boards[b].by = 1 /\ boards[c].by = 2

\* C18: every card made in the create path, that is by a create-card call
\* after the call of the model without context, is in a list of the board
\* that path created, also when the path was entered by fallback.
C18_CreatePathCardsOnNewBoard ==
    \A r \in active :
      LET l == loc[r] IN
      GenPos(l) > 0
        => \A j \in Succeeded(l, {"create_card"}) :
             j > GenPos(l)
               => /\ Succeeded(l, {"create_board"}) # {}
                  /\ BoardOfCard(l.calls[j].res) = l.board_id
                  /\ boards[l.board_id].by = r

\* ------------------------------------------------------------ termination
\* One statement of run r.  The interpreter executes the statement a run
\* has reached, and every request and every call of the model returns or
\* raises, so a step that stays possible is taken.
RunStep(r) ==
    /\ r \in active
    /\ \/ ImportApp(r) \/ MainStart(r) \/ CloneRepo(r) \/ ScanCodebase(r)
       \/ GetMember(r) \/ GetBoards(r) \/ CheckBoardExists(r) \/ GetBoard(r)
       \/ FetchLists(r) \/ FetchCards(r) \/ AskGeminiUpdate(r)
       \/ UpdateCreateList(r) \/ UpdateCreateCard(r) \/ CheckNotExists(r)
       \/ AskGemini(r) \/ CreateBoard(r) \/ CreateList(r) \/ CreateCard(r)
       \/ Finish(r)

SpecFair == Init /\ [][Next]_vars /\ \A r \in RunIds : WF_vars(RunStep(r))

UpdatePcs == {"get_board", "fetch_lists", "fetch_cards", "update_gemini",
              "update_list", "update_card"}
CreatePcs == {"gemini", "create_board", "create_list", "create_card"}

\* The paths a run has entered and the calls it has made so far.
PathsAndCallsBounded(l) ==
    /\ l.entered \in {<<>>, <<"update">>, <<"create">>, <<"update", "create">>}
    /\ Cardinality(CallsOf(l, {"generate_update"})) <= 1
    /\ Cardinality(CallsOf(l, {"generate"})) <= 1
    /\ Cardinality(CallsOf(l, {"create_board"})) <= 1
    /\ l.pc \in UpdatePcs => l.entered = <<"update">>
    /\ l.pc \in CreatePcs => l.entered[Len(l.entered)] = "create"

\* C19: a run enters the update path at most once and the create path at
\* most once, never the update path after the create path, asks the model
\* at most once with and at most once without existing cards and calls
\* create-board at most once; and every run ends, done or in an error.
C19_RunsEndWithinTheirBudget ==
    /\ [](\A r \in active : PathsAndCallsBounded(loc[r]))
    /\ [][\A r \in active :
            loc[r].pc \in CreatePcs \cup Terminal => loc'[r].pc \notin UpdatePcs]_vars
    /\ <>[](\A r \in active : loc[r].pc \in Terminal)

\* C19 witness: a run that took both paths, asked the model twice and
\* created its board has ended.
C19_Witness ==
    \E r \in active :
      LET l == loc[r] IN
      /\ l.pc = "done"
      /\ l.entered = <<"update", "create">>
      /\ Cardinality(CallsOf(l, {"generate_update"})) = 1
      /\ Cardinality(CallsOf(l, {"generate"})) = 1
      /\ Cardinality(CallsOf(l, {"create_board"})) = 1

\* ------------------------------------------------------------ frame
\* Every element of the sequence before is still there, unchanged.
Kept(before, after) ==
    /\ Len(after) >= Len(before)
    /\ \A i \in 1..Len(before) : after[i] = before[i]

\* C20: the only requests a run makes are reads and create-board,
\* create-list, create-card; no step changes or removes a list or a card
\* that is on the service, whether the description repeats it or omits it,
\* and no step of a run changes a board that is there.
C20_ExistingListsAndCardsStay ==
    /\ [](\A r \in active :
            \A i \in DOMAIN loc[r].calls : loc[r].calls[i].op \in GenOps \cup ServiceOps)
    /\ [][/\ Kept(lists, lists')
          /\ Kept(cards, cards')
          /\ loc' # loc => Kept(boards, boards')]_vars

\* C20 witness: an update cycle has ended on a board that held a card the
\* description repeats and a card it omits; both are still there, next to
\* the new card of the repeated description.
C20_Witness ==
    \E r \in active :
      LET l == loc[r] IN
      /\ l.pc = "done"
      /\ l.entered = <<"update">>
      /\ \E c \in DOMAIN l.data :
           /\ cards[c].by = 0
           /\ cards[c].desc = ResolvedDesc
           /\ \A n \in CardsBy(r) : cards[n].desc # ResolvedDesc
      /\ \E c \in DOMAIN l.data, n \in CardsBy(r) :
           cards[c].by = 0 /\ cards[c].desc = cards[n].desc

====
